---- MODULE Spec2Model ----
(***************************************************************************)
(* Model of package irc (vedranvuk/irc): the Message line parser.          *)
(*                                                                         *)
(* A Go string is modelled as a sequence of one-character strings; the     *)
(* three control characters NewMessage treats specially are the tokens     *)
(* NUL, LF and CR.  Indices inside the operators are Go's 0-based indices, *)
(* so that every slice expression of the source can be compared with its   *)
(* translation: s[lo:hi] is Slice(s, lo, hi) and is legal iff              *)
(* 0 <= lo <= hi <= len(s).  An accessor yields a record                   *)
(* [panic, val]: panic = TRUE is Go's run-time panic "slice bounds out of  *)
(* range".                                                                 *)
(***************************************************************************)
EXTENDS Integers, Sequences, FiniteSets, TLC

VARIABLES line, parts, msg, pc, op, res, irc, opened, wrote

vars == <<line, parts, msg, pc, op, res, irc, opened, wrote>>

-----------------------------------------------------------------------------
(* Characters *)

NUL == "NUL"
LF == "LF"
CR == "CR"
SP == " "
COLON == ":"

\* The characters arbitrary input lines are drawn from.
Alphabet == {NUL, LF, CR, SP, COLON, "-", "1", "a", "A"}

\* Longest arbitrary input line.
MaxLen == 3

\* Longest prefix, command, middle and trailing part of a line that is
\* assembled after the wire grammar.
MaxPfx == 2
MaxCmd == 1
MaxMid == 1
MaxTrail == 3

\* All strings over the characters cs of length at most n.
Strs(cs, n) == UNION {[1..k -> cs] : k \in 0..n}

-----------------------------------------------------------------------------
(* Go string primitives used by message.go *)

\* s[lo:hi]
Slice(s, lo, hi) == SubSeq(s, lo + 1, hi)

\* s[lo:hi] does not panic
SliceOK(s, lo, hi) == 0 <= lo /\ lo <= hi /\ hi <= Len(s)

\* s[lo:]
SliceFrom(s, lo) == SubSeq(s, lo + 1, Len(s))

\* strings.Index(s, c) for a one-character c: 0-based index of the first
\* occurrence, -1 when there is none.
Index(s, c) ==
    IF \E k \in 1..Len(s) : s[k] = c
    THEN (CHOOSE k \in 1..Len(s) : s[k] = c /\ \A j \in 1..(k - 1) : s[j] # c) - 1
    ELSE -1

\* strings.TrimLeft(s, cutset)
TrimLeft(s, cutset) ==
    IF \A k \in 1..Len(s) : s[k] \in cutset
    THEN <<>>
    ELSE LET f == CHOOSE k \in 1..Len(s) :
                      s[k] \notin cutset /\ \A j \in 1..(k - 1) : s[j] \in cutset
         IN  SubSeq(s, f, Len(s))

\* strings.TrimRight(s, cutset)
TrimRight(s, cutset) ==
    IF \A k \in 1..Len(s) : s[k] \in cutset
    THEN <<>>
    ELSE LET l == CHOOSE k \in 1..Len(s) :
                      s[k] \notin cutset /\ \A j \in (k + 1)..Len(s) : s[j] \in cutset
         IN  SubSeq(s, 1, l)

\* strings.Trim(s, cutset): both ends.
Trim(s, cutset) == TrimRight(TrimLeft(s, cutset), cutset)

\* strings.Split(s, sep) for a one-character sep: one more element than
\* there are separators, so Split("", " ") is the one-element list [""].
RECURSIVE Split(_, _)
Split(s, sep) ==
    LET i == Index(s, sep)
    IN  IF i = -1 THEN <<s>>
        ELSE <<Slice(s, 0, i)>> \o Split(SliceFrom(s, i + 1), sep)

UpperOf(c) == IF c = "a" THEN "A" ELSE c

\* strings.ToUpper(s)
ToUpper(s) == [k \in 1..Len(s) |-> UpperOf(s[k])]

IsDigit(c) == c \in {"0", "1", "2", "3", "4", "5", "6", "7", "8", "9"}

DigitVal(c) ==
    CASE c = "0" -> 0 [] c = "1" -> 1 [] c = "2" -> 2 [] c = "3" -> 3
      [] c = "4" -> 4 [] c = "5" -> 5 [] c = "6" -> 6 [] c = "7" -> 7
      [] c = "8" -> 8 [] c = "9" -> 9

RECURSIVE DecimalVal(_)
DecimalVal(s) ==
    IF Len(s) = 0 THEN 0
    ELSE DecimalVal(SubSeq(s, 1, Len(s) - 1)) * 10 + DigitVal(s[Len(s)])

\* strconv.Atoi(s): an optional sign, then one or more decimal digits.
\* (Lines here are far shorter than the 19 digits at which Atoi reports a
\* range error.)
Atoi(s) ==
    LET signed == Len(s) > 0 /\ s[1] \in {"+", "-"}
        digits == IF signed THEN SliceFrom(s, 1) ELSE s
    IN  IF Len(digits) = 0 \/ \E k \in 1..Len(digits) : ~IsDigit(digits[k])
        THEN [err |-> TRUE, v |-> 0]
        ELSE [err |-> FALSE,
              v |-> IF signed /\ s[1] = "-" THEN 0 - DecimalVal(digits)
                    ELSE DecimalVal(digits)]

-----------------------------------------------------------------------------
(* Results of a call *)

Ok(v) == [panic |-> FALSE, val |-> v]

\* run-time panic: slice bounds out of range
Panic == [panic |-> TRUE, val |-> <<>>]

-----------------------------------------------------------------------------
(* message.go *)

\* Faulty variant of NewMessage: strings.TrimRight in place of strings.Trim.
NewMessage_TrimRight(s) ==
    LET r == TrimRight(s, {NUL, LF, CR})
    IN  IF Index(r, NUL) # -1 THEN <<>> ELSE r

\* NewMessage(s): sanitize a received line.
NewMessage(s) ==
    LET r == Trim(s, {NUL, LF, CR})
    IN  IF Index(r, NUL) # -1 THEN <<>> ELSE r

IsEmpty(m) == Len(m) = 0

HasPrefix(m) == IF IsEmpty(m) THEN FALSE ELSE m[1] = COLON

HasTrailing(m) ==
    IF IsEmpty(m) THEN Ok(FALSE)
    ELSE IF HasPrefix(m)
         THEN IF SliceOK(m, 1, Len(m)) THEN Ok(Index(SliceFrom(m, 1), COLON) > -1)
              ELSE Panic
         ELSE Ok(Index(m, COLON) > -1)

\* Faulty variant of Prefix: the slice keeps the leading colon.
Prefix_KeepsColon(m) ==
    LET i == Index(m, SP)
    IN  IF i > -1
        THEN IF SliceOK(m, 0, i) THEN Ok(Slice(m, 0, i)) ELSE Panic
        ELSE Ok(<<>>)

\* Prefix(): lines 66 and 68-70 both run, so the slice is taken whenever the
\* line holds a space, with or without a prefix.
Prefix(m) ==
    LET i == Index(m, SP)
    IN  IF i > -1
        THEN IF SliceOK(m, 1, i) THEN Ok(Slice(m, 1, i)) ELSE Panic
        ELSE Ok(<<>>)

\* Faulty variant of Command: strings.ToUpper left out.
Command_NoUpper(m) ==
    LET Word(s) == LET j == Index(s, SP)
                   IN  IF SliceOK(s, 0, j) THEN Ok(Slice(s, 0, j)) ELSE Panic
        i == Index(m, SP)
    IN  IF IsEmpty(m) THEN Ok(<<>>)
        ELSE IF HasPrefix(m)
             THEN IF i > -1 /\ i + 1 < Len(m)
                  THEN Word(SliceFrom(m, i + 1))
                  ELSE Ok(<<>>)
             ELSE Word(m)

Command(m) ==
    LET \* line 87: s[:strings.Index(s, " ")], upper-cased
        Word(s) == LET j == Index(s, SP)
                   IN  IF SliceOK(s, 0, j) THEN Ok(ToUpper(Slice(s, 0, j))) ELSE Panic
        i == Index(m, SP)
    IN  IF IsEmpty(m) THEN Ok(<<>>)
        ELSE IF HasPrefix(m)
             THEN IF i > -1 /\ i + 1 < Len(m)
                  THEN Word(SliceFrom(m, i + 1))
                  ELSE Ok(<<>>)
             ELSE Word(m)

IsNumeric(m) ==
    LET c == Command(m)
    IN  IF c.panic THEN Panic ELSE Ok(~Atoi(c.val).err)

Numeric(m) ==
    LET c == Command(m)
    IN  IF c.panic THEN Panic
        ELSE IF Atoi(c.val).err THEN Ok(-1) ELSE Ok(Atoi(c.val).v)

\* The shared first step of Middle and Trailing ("Skip prefix."): the text
\* after the prefix and its space; [ret |-> TRUE] is the early return "".
SkipPrefix(m) ==
    IF HasPrefix(m)
    THEN LET s == SliceFrom(m, 1)
             i == Index(s, SP)
         IN  IF i > -1 /\ i + 1 < Len(s)
             THEN [ret |-> FALSE, s |-> SliceFrom(s, i + 1)]
             ELSE [ret |-> TRUE, s |-> <<>>]
    ELSE [ret |-> FALSE, s |-> m]

Middle(m) ==
    IF IsEmpty(m) THEN Ok(<<>>)
    ELSE LET p == SkipPrefix(m)
         IN  IF p.ret THEN Ok(<<>>)
             ELSE LET i == Index(p.s, SP)
                  IN  IF i > -1 /\ i < Len(p.s)
                      THEN LET s == SliceFrom(p.s, i + 1)
                               k == Index(s, COLON)
                           IN  IF k > -1
                               THEN IF SliceOK(s, 0, k)
                                    THEN Ok(TrimRight(Slice(s, 0, k), {SP}))
                                    ELSE Panic
                               ELSE Ok(s)
                      ELSE Ok(<<>>)

\* Faulty variant of Middles: an empty Middle gives the empty list.
Middles_EmptyList(m) ==
    LET x == Middle(m)
    IN  IF x.panic THEN Panic
        ELSE IF x.val = <<>> THEN Ok(<<>>) ELSE Ok(Split(x.val, SP))

Middles(m) ==
    LET x == Middle(m)
    IN  IF x.panic THEN Panic ELSE Ok(Split(x.val, SP))

\* Faulty variant of Trailing: only the leading colon is skipped, not the
\* prefix, so a colon inside the prefix is taken for the trailing marker.
Trailing_NoSkipPrefix(m) ==
    IF IsEmpty(m) THEN Ok(<<>>)
    ELSE LET s == IF HasPrefix(m) THEN SliceFrom(m, 1) ELSE m
             i == Index(s, COLON)
         IN  IF i > -1 /\ i + 1 < Len(s)
             THEN Ok(SliceFrom(s, i + 1))
             ELSE Ok(<<>>)

Trailing(m) ==
    IF IsEmpty(m) THEN Ok(<<>>)
    ELSE LET p == SkipPrefix(m)
         IN  IF p.ret THEN Ok(<<>>)
             ELSE LET i == Index(p.s, COLON)
                  IN  IF i > -1 /\ i + 1 < Len(p.s)
                      THEN Ok(SliceFrom(p.s, i + 1))
                      ELSE Ok(<<>>)

Trailings(m) ==
    LET x == Trailing(m)
    IN  IF x.panic THEN Panic ELSE Ok(Split(x.val, SP))

-----------------------------------------------------------------------------
(* Input lines *)

\* A line assembled after the wire grammar
\*   [':' prefix ' '] command [' ' middle] [' ' ':' trailing]
BuildLine(p) ==
    (IF p.hasPfx THEN <<COLON>> \o p.pfx \o <<SP>> ELSE <<>>)
    \o p.cmd
    \o (IF p.hasMid THEN <<SP>> \o p.mid ELSE <<>>)
    \o (IF p.hasTrail THEN <<SP, COLON>> \o p.trail ELSE <<>>)

BuiltParts ==
    {p \in [built : {TRUE},
            hasPfx : BOOLEAN, pfx : Strs({"a", COLON}, MaxPfx),
            cmd : Strs({"a", "1"}, MaxCmd),
            hasMid : BOOLEAN, mid : Strs({"a", SP}, MaxMid),
            hasTrail : BOOLEAN, trail : Strs({"a", SP, COLON}, MaxTrail)] :
        /\ p.hasPfx \/ p.pfx = <<>>
        /\ p.hasMid \/ p.mid = <<>>
        /\ p.hasTrail \/ p.trail = <<>>}

\* The parts of a line that was not assembled.
NoParts ==
    [built |-> FALSE, hasPfx |-> FALSE, pfx |-> <<>>, cmd |-> <<>>,
     hasMid |-> FALSE, mid |-> <<>>, hasTrail |-> FALSE, trail |-> <<>>]

-----------------------------------------------------------------------------
(* irc.go: the client structure.  irc holds the fields conn, rbuf, pass and *)
(* MaxMsgLen of the IRC struct; a connection is [id, tls], where id numbers *)
(* the TCP connections in the order they were opened and id = 0 is nil;     *)
(* opened counts the connections opened so far; wrote is the list of        *)
(* conn.Write calls the last operation made.                               *)

\* The message length limit (400 in New), scaled down.
MaxMsgLen == 12

NilConn == [id |-> 0, tls |-> FALSE]

\* The struct New returns.
New == [conn |-> NilConn, rbuf |-> NilConn, pass |-> <<>>, MaxMsgLen |-> MaxMsgLen]

\* No connection is involved: the parsers do not touch the client.
NoClient ==
    /\ irc = New
    /\ opened = 0
    /\ wrote = <<>>

-----------------------------------------------------------------------------
(* State machine: a line is received, NewMessage makes it a Message, and    *)
(* one accessor is called on the Message.                                  *)

Init ==
    /\ \/ parts = NoParts /\ line \in Strs(Alphabet, MaxLen)
       \/ parts \in BuiltParts /\ line = BuildLine(parts)
    /\ msg = <<>>
    /\ pc = "read"
    /\ op = "none"
    /\ res = Ok(<<>>)
    /\ NoClient

CallNewMessage ==
    /\ pc = "read"
    /\ msg' = NewMessage(line)
    /\ pc' = "parsed"
    /\ UNCHANGED <<line, parts, op, res, irc, opened, wrote>>

\* The accessor has returned (or panicked) with res.
Returned ==
    /\ pc' = "called"
    /\ UNCHANGED <<line, parts, msg, irc, opened, wrote>>

CallHasPrefix ==
    /\ pc = "parsed"
    /\ op' = "HasPrefix" /\ res' = Ok(HasPrefix(msg))
    /\ Returned

CallHasTrailing ==
    /\ pc = "parsed"
    /\ op' = "HasTrailing" /\ res' = HasTrailing(msg)
    /\ Returned

CallPrefix ==
    /\ pc = "parsed"
    /\ op' = "Prefix" /\ res' = Prefix(msg)
    /\ Returned

CallCommand ==
    /\ pc = "parsed"
    /\ op' = "Command" /\ res' = Command(msg)
    /\ Returned

CallIsNumeric ==
    /\ pc = "parsed"
    /\ op' = "IsNumeric" /\ res' = IsNumeric(msg)
    /\ Returned

CallNumeric ==
    /\ pc = "parsed"
    /\ op' = "Numeric" /\ res' = Numeric(msg)
    /\ Returned

CallMiddle ==
    /\ pc = "parsed"
    /\ op' = "Middle" /\ res' = Middle(msg)
    /\ Returned

CallMiddles ==
    /\ pc = "parsed"
    /\ op' = "Middles" /\ res' = Middles(msg)
    /\ Returned

CallTrailing ==
    /\ pc = "parsed"
    /\ op' = "Trailing" /\ res' = Trailing(msg)
    /\ Returned

CallTrailings ==
    /\ pc = "parsed"
    /\ op' = "Trailings" /\ res' = Trailings(msg)
    /\ Returned

Next ==
    \/ CallNewMessage
    \/ CallHasPrefix
    \/ CallHasTrailing
    \/ CallPrefix
    \/ CallCommand
    \/ CallIsNumeric
    \/ CallNumeric
    \/ CallMiddle
    \/ CallMiddles
    \/ CallTrailing
    \/ CallTrailings

Spec == Init /\ [][Next]_vars

-----------------------------------------------------------------------------
(* Vocabulary of the properties *)

Called(name) == pc = "called" /\ op = name

\* The three characters NewMessage strips.
Ctl == {NUL, LF, CR}

StartsWithColon(m) == Len(m) > 0 /\ m[1] = COLON

NoSpaceIn(m, lo, hi) == \A k \in (lo + 1)..hi : m[k] # SP

\* The command token of m starts at b: right after the prefix and its
\* space, or at 0 when m has no prefix.
IsCommandStart(m, b) ==
    IF StartsWithColon(m)
    THEN b >= 2 /\ b <= Len(m) /\ m[b] = SP /\ NoSpaceIn(m, 0, b - 1)
    ELSE b = 0

\* m[b:e] is a command token that a space follows.
IsTokenEnd(m, b, e) ==
    b <= e /\ e < Len(m) /\ m[e + 1] = SP /\ NoSpaceIn(m, b, e)

\* m[b:] is a non-empty command token that runs to the end of the line.
IsBareToken(m, b) == b < Len(m) /\ NoSpaceIn(m, b, Len(m))

OnlyDigits(s) == Len(s) > 0 /\ \A k \in 1..Len(s) : IsDigit(s[k])

\* r is mid without its trailing spaces.
IsRightTrimOf(r, mid) ==
    /\ Len(r) <= Len(mid)
    /\ SubSeq(mid, 1, Len(r)) = r
    /\ \A k \in (Len(r) + 1)..Len(mid) : mid[k] = SP
    /\ Len(r) = 0 \/ r[Len(r)] # SP

\* s[0:a] holds only characters of cut.
IsLeadingRun(s, a, cut) == \A k \in 1..a : s[k] \in cut

\* s[b:] holds only characters of cut.
IsTrailingRun(s, b, cut) == \A k \in (b + 1)..Len(s) : s[k] \in cut

\* s[a:b] neither begins nor ends with a character of cut.
IsTrimmed(s, a, b, cut) == a = b \/ (s[a + 1] \notin cut /\ s[b] \notin cut)

HasNul(s) == \E k \in 1..Len(s) : s[k] = NUL

-----------------------------------------------------------------------------
(* Properties *)

\* C1: no Message accessor panics, whatever line was given to NewMessage.
\* (Fails: Command, and with it IsNumeric and Numeric, panics on a line whose
\* command is not followed by a space; Prefix panics on a line that starts
\* with a space.)
C1_NoAccessorPanics == pc = "called" => ~res.panic

\* C2: on a line that does not begin with ':', Prefix() is empty, with or
\* without a space in the line.  Stated for the calls that return.
\* (Fails: Prefix returns m[1:i] up to the first space also without prefix.)
C2_NoPrefixGivesEmpty ==
    (Called("Prefix") /\ ~StartsWithColon(msg) /\ ~res.panic) => res.val = <<>>

\* C3: on a line ':' p ' ' rest, where p holds no space, Prefix() is p.
C3_PrefixIsP ==
    Called("Prefix") =>
        \A i \in 1..(Len(msg) - 1) :
            (StartsWithColon(msg) /\ msg[i + 1] = SP /\ NoSpaceIn(msg, 1, i))
                => res = Ok(Slice(msg, 1, i))

C3_Witness ==
    /\ Called("Prefix")
    /\ parts.built /\ parts.hasPfx /\ Len(parts.cmd) > 0
    /\ Len(parts.pfx) > 1 /\ parts.pfx[1] = "a"
    /\ res = Ok(parts.pfx)

\* C4: when a space follows the command token, Command() is that token in
\* upper case.
C4_CommandIsUpperToken ==
    Called("Command") =>
        \A b \in 0..Len(msg) : IsCommandStart(msg, b) =>
            \A e \in b..Len(msg) : IsTokenEnd(msg, b, e) =>
                /\ ~res.panic
                /\ Len(res.val) = e - b
                /\ \A k \in 1..(e - b) : res.val[k] = UpperOf(msg[b + k])

C4_Witness ==
    /\ Called("Command")
    /\ parts.built /\ parts.hasPfx /\ parts.hasMid
    /\ parts.cmd = <<"a">>
    /\ res = Ok(<<"A">>)

\* C5: when no space follows the command token, Command() is the empty
\* string, with a prefix (":p CMD") and without one ("CMD").
\* (Fails: s[:strings.Index(s, " ")] is s[:-1] there, a panic.)
C5_BareCommandGivesEmpty ==
    Called("Command") =>
        \A b \in 0..Len(msg) :
            (IsCommandStart(msg, b) /\ IsBareToken(msg, b)) => res = Ok(<<>>)

\* C6: IsNumeric() is true iff Command() consists only of decimal digits;
\* then Numeric() is their value, otherwise Numeric() is -1.  Stated for the
\* lines on which Command() returns.
\* (Fails: strconv.Atoi accepts a sign, so "-1" and "+5" are numeric.)
C6_NumericIffDigits ==
    LET c == Command(msg)
    IN  /\ (Called("IsNumeric") /\ ~c.panic) => res = Ok(OnlyDigits(c.val))
        /\ (Called("Numeric") /\ ~c.panic)
               => res = Ok(IF OnlyDigits(c.val) THEN DecimalVal(c.val) ELSE -1)

\* C7: on a line [':' prefix ' '] command ' ' middle ' :' t, Trailing() is t
\* and Middle() is middle without its trailing spaces; t may hold spaces and
\* colons, the prefix may hold colons.
C7_RoundTrip ==
    (pc = "called" /\ parts.built /\ parts.hasMid /\ parts.hasTrail) =>
        /\ op = "Trailing" => res = Ok(parts.trail)
        /\ op = "Middle" => ~res.panic /\ IsRightTrimOf(res.val, parts.mid)

C7_Witness ==
    /\ Called("Trailing")
    /\ parts.built /\ parts.hasPfx /\ parts.hasMid /\ parts.hasTrail
    /\ \E k \in 1..Len(parts.pfx) : parts.pfx[k] = COLON
    /\ \E k \in 1..Len(parts.trail) : parts.trail[k] = COLON
    /\ \E k \in 1..Len(parts.trail) : parts.trail[k] = SP
    /\ Len(parts.cmd) > 0 /\ Len(parts.mid) > 0
    /\ res = Ok(parts.trail)

\* C8: HasTrailing() is true iff there is a ':' after the prefix region; on
\* an assembled line that is: iff the line has the trailing marker.
\* (Fails: with a prefix the search starts at index 1, inside the prefix.)
C8_HasTrailingIffMarker ==
    (Called("HasTrailing") /\ parts.built) => res = Ok(parts.hasTrail)

\* C9 as stated: NewMessage(s) is s without its trailing CR, LF and NUL,
\* the rest unchanged, or empty when a NUL remains.
\* (Fails: strings.Trim strips the leading CR, LF and NUL as well.)
C9_TrailingOnly ==
    pc = "parsed" =>
        LET r == TrimRight(line, Ctl)
        IN  msg = IF HasNul(r) THEN <<>> ELSE r

\* C9 amended: NewMessage(s) is s without its leading and trailing CR, LF
\* and NUL, the rest unchanged, or empty when a NUL remains in the rest; no
\* Message holds a NUL or begins or ends with CR, LF or NUL.
C9_BothEnds ==
    pc = "parsed" =>
        /\ \E a \in 0..Len(line) :
               /\ IsLeadingRun(line, a, Ctl)
               /\ \E b \in a..Len(line) :
                      /\ IsTrailingRun(line, b, Ctl)
                      /\ IsTrimmed(line, a, b, Ctl)
                      /\ msg = IF HasNul(Slice(line, a, b)) THEN <<>>
                               ELSE Slice(line, a, b)
        /\ ~HasNul(msg)
        /\ Len(msg) > 0 => (msg[1] \notin Ctl /\ msg[Len(msg)] \notin Ctl)

C9_Witness ==
    /\ pc = "parsed"
    /\ Len(line) = MaxLen
    /\ line[1] \in Ctl /\ line[Len(line)] \in Ctl
    /\ Len(msg) = Len(line) - 2

\* C10: Middles() and Trailings() return at least one element, and exactly
\* one empty string when Middle() (Trailing()) is empty.
C10_AtLeastOneElement ==
    /\ Called("Middles") =>
           /\ ~res.panic /\ Len(res.val) >= 1
           /\ Middle(msg).val = <<>> => res.val = << <<>> >>
    /\ Called("Trailings") =>
           /\ ~res.panic /\ Len(res.val) >= 1
           /\ Trailing(msg).val = <<>> => res.val = << <<>> >>

C10_Witness ==
    /\ Called("Middles")
    /\ parts.built /\ Len(parts.cmd) > 0 /\ ~parts.hasMid /\ parts.hasTrail
    /\ Middle(msg) = Ok(<<>>)
    /\ res = Ok(<< <<>> >>)

-----------------------------------------------------------------------------
(* entity.go *)

\* Longest Entity string.
MaxEnt == 5

\* The characters Entity strings are drawn from.
EntityAlphabet == {"#", "!", "@", "a"}

\* strings.HasPrefix(s, c) for a one-character c.
StringsHasPrefix(s, c) == Len(s) >= 1 /\ s[1] = c

IsChan(e) == StringsHasPrefix(e, "#") /\ Len(e) > 1

IsHostmask(e) ==
    LET a == Index(e, "!")
        b == Index(e, "@")
    IN  b > a /\ a > -1

IsName(e) == ~IsChan(e) /\ ~IsHostmask(e)

Nickname(e) ==
    LET i == Index(e, "!")
    IN  IF i > 0
        THEN IF SliceOK(e, 0, i) THEN Ok(Slice(e, 0, i)) ELSE Panic
        ELSE IF Len(e) > 0 THEN Ok(e) ELSE Ok(<<>>)

Username(e) ==
    LET a == Index(e, "!")
        b == Index(e, "@")
    IN  IF b > a /\ a > -1
        THEN IF SliceOK(e, a + 1, b) THEN Ok(Slice(e, a + 1, b)) ELSE Panic
        ELSE Ok(<<>>)

Hostname(e) ==
    LET i == Index(e, "@")
    IN  IF i > 0 /\ i + 1 < Len(e)
        THEN IF SliceOK(e, i + 1, Len(e)) THEN Ok(SliceFrom(e, i + 1)) ELSE Panic
        ELSE Ok(<<>>)

(* State machine: an Entity is made of a string (held in line) and one of  *)
(* its methods is called.                                                  *)

InitEntity ==
    /\ line \in Strs(EntityAlphabet, MaxEnt)
    /\ parts = NoParts
    /\ msg = <<>>
    /\ pc = "entity"
    /\ op = "none"
    /\ res = Ok(<<>>)
    /\ NoClient

CallIsChan ==
    /\ pc = "entity"
    /\ op' = "IsChan" /\ res' = Ok(IsChan(line))
    /\ Returned

CallIsHostmask ==
    /\ pc = "entity"
    /\ op' = "IsHostmask" /\ res' = Ok(IsHostmask(line))
    /\ Returned

CallIsName ==
    /\ pc = "entity"
    /\ op' = "IsName" /\ res' = Ok(IsName(line))
    /\ Returned

CallNickname ==
    /\ pc = "entity"
    /\ op' = "Nickname" /\ res' = Nickname(line)
    /\ Returned

CallUsername ==
    /\ pc = "entity"
    /\ op' = "Username" /\ res' = Username(line)
    /\ Returned

CallHostname ==
    /\ pc = "entity"
    /\ op' = "Hostname" /\ res' = Hostname(line)
    /\ Returned

NextEntity ==
    \/ CallIsChan
    \/ CallIsHostmask
    \/ CallIsName
    \/ CallNickname
    \/ CallUsername
    \/ CallHostname

SpecEntity == InitEntity /\ [][NextEntity]_vars

(* Properties of Entity *)

BoolToNat(b) == IF b THEN 1 ELSE 0

\* C11: for every string exactly one of IsChan(), IsHostmask() and IsName()
\* is true.
\* (Fails: a string that starts with '#' and holds '!' before '@' is both a
\* channel and a hostmask.)
C11_ExactlyOneClass ==
    Called("IsName") =>
        BoolToNat(IsChan(line)) + BoolToNat(IsHostmask(line)) + BoolToNat(res.val) = 1

\* C12: when IsHostmask() is true, Nickname() is the text before the '!',
\* Username() the text between '!' and '@', Hostname() the text after '@',
\* so that Nickname() + "!" + Username() + "@" + Hostname() is the string.
\* (Fails: with an empty nickname part Nickname() is the whole string.)
C12_HostmaskDecomposition ==
    (pc = "called" /\ IsHostmask(line)) =>
        LET a == Index(line, "!")
            b == Index(line, "@")
        IN  /\ op = "Nickname" => res = Ok(Slice(line, 0, a))
            /\ op = "Username" => res = Ok(Slice(line, a + 1, b))
            /\ op = "Hostname" => res = Ok(SliceFrom(line, b + 1))

-----------------------------------------------------------------------------
(* utils.go: ParseChannelModes *)

\* Longest string given to ParseChannelModes.
MaxNick == 4

\* The characters those strings are drawn from: the five sigils and a
\* character that is none.
ModeAlphabet == {"~", "&", "@", "%", "+", "a"}

CmVoice == 1
CmHalfOp == 2
CmOp == 4
CmAdmin == 8
CmOwner == 16

\* The case of the switch that c selects: its mode bit, 0 for default.
ModeOf(c) ==
    CASE c = "~" -> CmOwner
      [] c = "&" -> CmAdmin
      [] c = "@" -> CmOp
      [] c = "%" -> CmHalfOp
      [] c = "+" -> CmVoice
      [] OTHER -> 0

\* Faulty variant of OrMode: "cm += bit".
OrMode_Add(cm, bit) == cm + bit

\* cm |= bit, for a one-bit bit.
OrMode(cm, bit) == IF (cm \div bit) % 2 = 1 THEN cm ELSE cm + bit

\* The for loop of ParseChannelModes from index i on.
RECURSIVE ModeScan(_, _, _)
ModeScan(s, i, cm) ==
    IF i < Len(s)
    THEN IF ModeOf(s[i + 1]) # 0
         THEN ModeScan(s, i + 1, OrMode(cm, ModeOf(s[i + 1])))
         ELSE [nick |-> SliceFrom(s, i), cm |-> cm]
    ELSE [nick |-> <<>>, cm |-> 0]

ParseChannelModes(s) == ModeScan(s, 0, 0)

(* State machine: ParseChannelModes is called on a string (held in line). *)

InitModes ==
    /\ line \in Strs(ModeAlphabet, MaxNick)
    /\ parts = NoParts
    /\ msg = <<>>
    /\ pc = "modes"
    /\ op = "none"
    /\ res = Ok(<<>>)
    /\ NoClient

CallParseChannelModes ==
    /\ pc = "modes"
    /\ op' = "ParseChannelModes" /\ res' = Ok(ParseChannelModes(line))
    /\ Returned

NextModes == CallParseChannelModes

SpecModes == InitModes /\ [][NextModes]_vars

(* Properties of ParseChannelModes *)

Sigils == {"~", "&", "@", "%", "+"}

\* The characters of s[0:k], as a set.
CharsBefore(s, k) == {s[j] : j \in 1..k}

\* The mode bits of a set of sigils: Voice=1, HalfOp=2, Op=4, Admin=8,
\* Owner=16, each counted once.
BitsOf(S) ==
    (IF "+" \in S THEN 1 ELSE 0) + (IF "%" \in S THEN 2 ELSE 0)
    + (IF "@" \in S THEN 4 ELSE 0) + (IF "&" \in S THEN 8 ELSE 0)
    + (IF "~" \in S THEN 16 ELSE 0)

\* s[k] is the first character of s that is no sigil.
IsFirstNonSigil(s, k) ==
    /\ k < Len(s) /\ s[k + 1] \notin Sigils
    /\ \A j \in 1..k : s[j] \in Sigils

\* C13: on an input with a non-sigil character the nickname is the rest of
\* the string from the first non-sigil character on, and the modes are the
\* OR of the bits of the distinct sigils before it, whatever their order and
\* number; without leading sigil the result is (input, 0).
C13_NickAndModes ==
    Called("ParseChannelModes") =>
        \A k \in 0..Len(line) : IsFirstNonSigil(line, k) =>
            /\ res.val.nick = SliceFrom(line, k)
            /\ res.val.cm = BitsOf(CharsBefore(line, k))
            /\ k = 0 => res.val = [nick |-> line, cm |-> 0]

C13_Witness ==
    /\ Called("ParseChannelModes")
    /\ line = <<"@", "&", "@", "a">>
    /\ res.val = [nick |-> <<"a">>, cm |-> 12]

\* C14: on an input of sigils only the nickname is empty and the modes are
\* the accumulated bits of those sigils.
\* (Fails: after the loop the function returns "", 0.)
C14_AllSigilsKeepModes ==
    (Called("ParseChannelModes") /\ \A j \in 1..Len(line) : line[j] \in Sigils) =>
        res.val = [nick |-> <<>>, cm |-> BitsOf(CharsBefore(line, Len(line)))]

-----------------------------------------------------------------------------
(* utils.go: StripControlCodes *)

\* Longest text given to StripControlCodes.
MaxText == 6

\* The formatting bytes 0x02, 0x0F, 0x16, 0x1D, 0x1F and the colour byte 0x03.
FormatCodes == {"^B", "^O", "^V", "^]", "^_"}
ColourCode == "^C"

\* The characters texts are drawn from.
TextAlphabet == {"^B", ColourCode, "1", ",", "a"}

\* isNum(s) for a one-character s.
isNum(ch) == IsDigit(ch)

\* One pass of the loop body in mode m at c[i]: the next mode, whether i is
\* incremented (adv = FALSE is "continue" without i++), and whether c[i] is
\* appended to r.
Consumed(m) == [m |-> m, adv |-> TRUE, emit |-> FALSE]
Emitted == [m |-> 0, adv |-> TRUE, emit |-> TRUE]
Reexamined == [m |-> 0, adv |-> FALSE, emit |-> FALSE]

\* case 0
StepNormal(ch) ==
    IF ch \in FormatCodes THEN Consumed(0)
    ELSE IF ch = ColourCode THEN Consumed(1)
    ELSE Emitted

\* Faulty variant of StepMarker: a character that is no digit is appended to
\* r instead of being examined again in mode 0.
StepMarker_EmitsOther(ch) == IF isNum(ch) THEN Consumed(2) ELSE Emitted

\* case 1
StepMarker(ch) == IF isNum(ch) THEN Consumed(2) ELSE Reexamined

\* Faulty variant of StepFirstDigit: no second foreground digit.
StepFirstDigit_OneDigit(ch) == IF ch = "," THEN Consumed(4) ELSE Reexamined

\* case 2
StepFirstDigit(ch) ==
    IF isNum(ch) THEN Consumed(3)
    ELSE IF ch = "," THEN Consumed(4)
    ELSE Reexamined

\* case 3
StepSecondDigit(c, i) ==
    IF c[i + 1] = ","
    THEN IF i + 1 < Len(c)
         THEN IF isNum(c[i + 2]) THEN Consumed(4) ELSE Reexamined
         ELSE Reexamined
    ELSE Reexamined

\* case 4
StepComma(ch) == IF isNum(ch) THEN Consumed(5) ELSE Reexamined

\* case 5
StepBgDigit(ch) == IF isNum(ch) THEN Consumed(0) ELSE Reexamined

\* switch m
ScanStep(c, i, m) ==
    CASE m = 0 -> StepNormal(c[i + 1])
      [] m = 1 -> StepMarker(c[i + 1])
      [] m = 2 -> StepFirstDigit(c[i + 1])
      [] m = 3 -> StepSecondDigit(c, i)
      [] m = 4 -> StepComma(c[i + 1])
      [] m = 5 -> StepBgDigit(c[i + 1])

\* for i < len(c): r is the text built so far; kept records the positions
\* (1-based) of the characters appended to r.
RECURSIVE Scan(_, _, _, _, _)
Scan(c, i, m, r, kept) ==
    IF i < Len(c)
    THEN LET st == ScanStep(c, i, m)
         IN  Scan(c, IF st.adv THEN i + 1 ELSE i, st.m,
                  IF st.emit THEN Append(r, c[i + 1]) ELSE r,
                  IF st.emit THEN kept \cup {i + 1} ELSE kept)
    ELSE [r |-> r, kept |-> kept]

StripControlCodes(text) == Scan(text, 0, 0, <<>>, {}).r

\* The positions of text whose characters StripControlCodes returns.
StripKept(text) == Scan(text, 0, 0, <<>>, {}).kept

(* State machine: StripControlCodes is called on a text (held in line),    *)
(* and then once more on its own result (kept in msg).                     *)

InitStrip ==
    /\ line \in Strs(TextAlphabet, MaxText)
    /\ parts = NoParts
    /\ msg = <<>>
    /\ pc = "strip"
    /\ op = "none"
    /\ res = Ok(<<>>)
    /\ NoClient

CallStripControlCodes ==
    /\ pc = "strip"
    /\ op' = "StripControlCodes" /\ res' = Ok(StripControlCodes(line))
    /\ Returned

CallStripAgain ==
    /\ pc = "called"
    /\ msg' = res.val
    /\ res' = Ok(StripControlCodes(res.val))
    /\ pc' = "again"
    /\ UNCHANGED <<line, parts, op, irc, opened, wrote>>

NextStrip ==
    \/ CallStripControlCodes
    \/ CallStripAgain

SpecStrip == InitStrip /\ [][NextStrip]_vars

(* Properties of StripControlCodes *)

ControlBytes == FormatCodes \cup {ColourCode}

DigitsIn(s, lo, hi) == \A k \in lo..hi : IsDigit(s[k])

\* s[i..j] (1-based, inclusive) is a well-formed colour sequence: 0x03, one
\* or two foreground digits, and optionally a comma and one or two
\* background digits.
IsColourSeq(s, i, j) ==
    /\ 1 <= i /\ j <= Len(s) /\ s[i] = ColourCode
    /\ \E f \in 1..2 :
           /\ i + f <= j /\ DigitsIn(s, i + 1, i + f)
           /\ \/ j = i + f
              \/ \E b \in 1..2 :
                     /\ j = i + f + 1 + b
                     /\ s[i + f + 1] = ","
                     /\ DigitsIn(s, i + f + 2, j)

\* Position k lies in a well-formed colour sequence of s.
InColourSeq(s, k) ==
    \E i \in 1..k : \E j \in k..Len(s) : IsColourSeq(s, i, j)

\* C15: the output holds none of the six control bytes, no character of a
\* well-formed colour sequence is output, and a text without control bytes
\* is returned unchanged.
C15_ControlCodesStripped ==
    Called("StripControlCodes") =>
        /\ \A k \in 1..Len(res.val) : res.val[k] \notin ControlBytes
        /\ \A k \in 1..Len(line) : InColourSeq(line, k) => k \notin StripKept(line)
        /\ (\A k \in 1..Len(line) : line[k] \notin ControlBytes) => res.val = line

C15_Witness ==
    /\ Called("StripControlCodes")
    /\ line = <<"^B", ColourCode, "1", ",", "1", "a">>
    /\ res.val = <<"a">>

\* C16: no character is dropped unless it is a control byte or lies in a
\* fully matched colour sequence; in particular a comma after one or two
\* foreground digits is dropped only when a digit follows it.
\* (Fails: after one foreground digit the comma is dropped without looking
\* at the next character.)
C16_NothingElseDropped ==
    Called("StripControlCodes") =>
        \A k \in 1..Len(line) :
            (line[k] \notin ControlBytes /\ ~InColourSeq(line, k))
                => k \in StripKept(line)

\* C17: stripping the result of StripControlCodes again changes nothing.
C17_Idempotent == pc = "again" => res.val = msg

C17_Witness ==
    /\ pc = "again"
    /\ Len(line) = MaxText
    /\ Len(msg) > 0 /\ Len(msg) < Len(line)
    /\ \E k \in 1..Len(msg) : msg[k] = ","
    /\ res.val = msg

-----------------------------------------------------------------------------
(* irc.go: Dial, Connected, Close, SendRaw and the command builders.       *)
(* Strings sent to the server are sequences of bytes; the two tokens C3    *)
(* and A9 are the lead and the continuation byte of one two-byte UTF-8     *)
(* character.                                                              *)

\* Connections a client may open in one run.
MaxConns == 2

\* Longest text argument given to a command builder.
MaxArg == 1

UTF8Lead == "C3"
UTF8Cont == "A9"

TextBytes == {"a", UTF8Lead, UTF8Cont}

\* Messages, keys, nicknames.
Texts == Strs(TextBytes, MaxArg) \cup {<<"a", "a", "a">>, <<"a", "a", UTF8Lead, UTF8Cont>>}

\* Channels and targets.
Names == {<<"#">>, <<"#", UTF8Lead, UTF8Cont, "a">>}

\* Strings given to SendRaw directly: the texts, one of MaxMsgLen + 1 bytes
\* and one whose last character straddles the limit.
Raws ==
    Texts \cup {[k \in 1..(MaxMsgLen + 1) |-> "a"],
                [k \in 1..(MaxMsgLen - 1) |-> "a"] \o <<UTF8Lead, UTF8Cont>>}

Passwords == {<<>>, <<"p">>}

\* Error values.
Nil == "nil"
ErrAlreadyConnected == "already connected"
ErrAlreadyDisconnected == "already disconnected"
ErrNotConnected == "not connected"
ErrShortWrite == "short write"
ErrNet == "network error"

\* Number of bytes of the character that starts at s[i].
RuneLen(s, i) ==
    IF s[i + 1] = UTF8Lead /\ i + 1 < Len(s) /\ s[i + 2] = UTF8Cont THEN 2 ELSE 1

\* stringsex.LenLimitByRune(s, n): the longest prefix of s of at most n bytes
\* that ends between two characters.
RECURSIVE LimitEnd(_, _, _)
LimitEnd(s, i, n) ==
    IF i < Len(s) /\ i + RuneLen(s, i) <= n
    THEN LimitEnd(s, i + RuneLen(s, i), n)
    ELSE i

LenLimitByRune(s, n) == Slice(s, 0, LimitEnd(s, 0, n))

\* stringsex.LenSplitByRune(s, n): s cut into consecutive pieces of at most
\* n bytes, each ending between two characters; the cutting stops where not
\* even one character fits.
RECURSIVE LenSplitByRune(_, _)
LenSplitByRune(s, n) ==
    LET p == LenLimitByRune(s, n)
    IN  IF p = <<>> THEN <<>>
        ELSE <<p>> \o LenSplitByRune(SliceFrom(s, Len(p)), n)

\* Dial on client i; ok tells whether net.DialTCP succeeds, n is the number
\* of connections opened before.
Dial(i, password, useTLS, ok, n) ==
    IF i.conn # NilConn
    THEN [irc |-> i, err |-> ErrAlreadyConnected, opened |-> n]
    ELSE IF ~ok
         THEN [irc |-> i, err |-> ErrNet, opened |-> n]
         ELSE LET c == [id |-> n + 1, tls |-> useTLS]
              IN  [irc |-> [i EXCEPT !.conn = c, !.rbuf = c, !.pass = password],
                   err |-> Nil, opened |-> n + 1]

Connected(i) == i.conn # NilConn

\* Faulty variant of Close: the connection is closed but conn and rbuf keep
\* pointing at it.
Close_KeepsConn(i, cerr) ==
    IF i.conn = NilConn
    THEN [irc |-> i, err |-> ErrAlreadyDisconnected]
    ELSE [irc |-> i, err |-> cerr]

\* Close on client i; cerr is what conn.Close() returns.
Close(i, cerr) ==
    IF i.conn = NilConn
    THEN [irc |-> i, err |-> ErrAlreadyDisconnected]
    ELSE [irc |-> [i EXCEPT !.conn = NilConn, !.rbuf = NilConn], err |-> cerr]

\* What conn.Write(b) may return: all bytes written; fewer bytes written and
\* an error (the io.Writer contract for a short count); fewer bytes written
\* and no error; nothing written and an error.
WriteKinds == {"full", "partial error", "short", "error"}

Write(c, b, kind) ==
    [conn |-> c, b |-> b,
     n |-> CASE kind = "full" -> Len(b)
             [] kind = "error" -> 0
             [] OTHER -> Len(b) - 1,
     err |-> IF kind \in {"partial error", "error"} THEN ErrNet ELSE Nil]

\* Faulty variant of SendRaw: the line is not limited to MaxMsgLen.
SendRaw_NoLimit(i, raw, kind) ==
    IF i.conn = NilConn
    THEN [irc |-> i, err |-> ErrNotConnected, wrote |-> <<>>, raw |-> raw]
    ELSE IF raw = <<>>
    THEN [irc |-> i, err |-> Nil, wrote |-> <<>>, raw |-> raw]
    ELSE LET s == raw \o <<CR, LF>>
             w == Write(i.conn, s, kind)
         IN  IF w.err # Nil
             THEN [irc |-> i, err |-> w.err, wrote |-> <<w>>, raw |-> raw]
             ELSE IF w.n # Len(s)
             THEN [irc |-> Close(i, Nil).irc, err |-> ErrShortWrite,
                   wrote |-> <<w>>, raw |-> raw]
             ELSE [irc |-> i, err |-> Nil, wrote |-> <<w>>, raw |-> raw]

\* SendRaw(raw) on client i; kind is the outcome of conn.Write.  The result
\* holds the client afterwards, the error returned, the writes made and the
\* raw string received.
SendRaw(i, raw, kind) ==
    IF i.conn = NilConn
    THEN [irc |-> i, err |-> ErrNotConnected, wrote |-> <<>>, raw |-> raw]
    ELSE IF raw = <<>>
    THEN [irc |-> i, err |-> Nil, wrote |-> <<>>, raw |-> raw]
    ELSE LET s == LenLimitByRune(raw, i.MaxMsgLen) \o <<CR, LF>>
             w == Write(i.conn, s, kind)
         IN  IF w.err # Nil
             THEN [irc |-> i, err |-> w.err, wrote |-> <<w>>, raw |-> raw]
             ELSE IF w.n # Len(s)
             THEN [irc |-> Close(i, Nil).irc, err |-> ErrShortWrite,
                   wrote |-> <<w>>, raw |-> raw]
             ELSE [irc |-> i, err |-> Nil, wrote |-> <<w>>, raw |-> raw]

\* The command words with the separators fmt.Sprintf puts after them.
JOIN == <<"J", "O", "I", "N", SP>>
PART == <<"P", "A", "R", "T", SP>>
PRIVMSG == <<"P", "R", "I", "V", "M", "S", "G", SP>>
NOTICE == <<"N", "O", "T", "I", "C", "E", SP>>
NICK == <<"N", "I", "C", "K", SP, COLON>>
QUIT == <<"Q", "U", "I", "T">>

CmdJoin(i, channel, key, kind) ==
    IF key # <<>>
    THEN SendRaw(i, JOIN \o channel \o <<SP>> \o key, kind)
    ELSE SendRaw(i, JOIN \o channel, kind)

CmdPart(i, channel, message, kind) ==
    IF message # <<>>
    THEN SendRaw(i, PART \o channel \o <<SP, COLON>> \o message, kind)
    ELSE SendRaw(i, PART \o channel, kind)

\* The loop over the pieces returns in its first pass: only out[0] is sent.
CmdPrivMsg(i, message, target, kind) ==
    LET head == PRIVMSG \o target \o <<SP, COLON>>
        max == i.MaxMsgLen - Len(head)
        out == LenSplitByRune(message, max)
    IN  IF out # <<>>
        THEN SendRaw(i, head \o out[1], kind)
        ELSE [irc |-> i, err |-> Nil, wrote |-> <<>>, raw |-> <<>>]

CmdNotice(i, message, target, kind) ==
    LET head == NOTICE \o target \o <<SP, COLON>>
        max == i.MaxMsgLen - Len(head)
        out == LenSplitByRune(message, max)
    IN  IF out # <<>>
        THEN SendRaw(i, head \o out[1], kind)
        ELSE [irc |-> i, err |-> Nil, wrote |-> <<>>, raw |-> <<>>]

CmdNickname(i, newnick, kind) == SendRaw(i, NICK \o newnick, kind)

CmdQuit(i, message, kind) ==
    IF message # <<>>
    THEN SendRaw(i, QUIT \o <<SP, COLON>> \o message, kind)
    ELSE SendRaw(i, QUIT, kind)

(* State machines.  op names the last call, line the raw string SendRaw    *)
(* received in it, res the error returned, wrote the writes it made.       *)

\* The call returned r, the result of SendRaw or of a command builder.
Sent(r) ==
    /\ line' = r.raw
    /\ res' = Ok(r.err)
    /\ irc' = r.irc
    /\ wrote' = r.wrote
    /\ UNCHANGED <<parts, msg, pc, opened>>

InitDriver ==
    /\ line = <<>>
    /\ parts = NoParts
    /\ msg = <<>>
    /\ pc = "driver"
    /\ op = "New"
    /\ res = Ok(Nil)
    /\ irc = New
    /\ opened = 0
    /\ wrote = <<>>

CallDial ==
    /\ pc = "driver"
    /\ \E password \in Passwords, useTLS \in BOOLEAN, ok \in BOOLEAN :
           LET r == Dial(irc, password, useTLS, ok, opened)
           IN  /\ r.opened <= MaxConns
               /\ op' = "Dial"
               /\ res' = Ok(r.err)
               /\ irc' = r.irc
               /\ opened' = r.opened
    /\ line' = <<>>
    /\ wrote' = <<>>
    /\ UNCHANGED <<parts, msg, pc>>

CallConnected ==
    /\ pc = "driver"
    /\ op' = "Connected"
    /\ res' = Ok(Connected(irc))
    /\ line' = <<>>
    /\ wrote' = <<>>
    /\ UNCHANGED <<parts, msg, pc, irc, opened>>

CallClose ==
    /\ pc = "driver"
    /\ \E cerr \in {Nil, ErrNet} :
           LET r == Close(irc, cerr)
           IN  /\ op' = "Close"
               /\ res' = Ok(r.err)
               /\ irc' = r.irc
    /\ line' = <<>>
    /\ wrote' = <<>>
    /\ UNCHANGED <<parts, msg, pc, opened>>

CallSendRaw ==
    /\ pc \in {"driver", "send"}
    /\ op' = "SendRaw"
    /\ \E raw \in Raws, kind \in WriteKinds : Sent(SendRaw(irc, raw, kind))

NextDriver ==
    \/ CallDial
    \/ CallConnected
    \/ CallClose
    \/ CallSendRaw

SpecDriver == InitDriver /\ [][NextDriver]_vars

\* The command builders on a client that Dial has connected.
InitSend ==
    /\ line = <<>>
    /\ parts = NoParts
    /\ msg = <<>>
    /\ pc = "send"
    /\ op = "Dial"
    /\ res = Ok(Nil)
    /\ \E password \in Passwords, useTLS \in BOOLEAN :
           irc = Dial(New, password, useTLS, TRUE, 0).irc
    /\ opened = 1
    /\ wrote = <<>>

CallCmdJoin ==
    /\ pc = "send"
    /\ op' = "CmdJoin"
    /\ \E channel \in Names, key \in Texts, kind \in WriteKinds :
           Sent(CmdJoin(irc, channel, key, kind))

CallCmdPart ==
    /\ pc = "send"
    /\ op' = "CmdPart"
    /\ \E channel \in Names, message \in Texts, kind \in WriteKinds :
           Sent(CmdPart(irc, channel, message, kind))

CallCmdPrivMsg ==
    /\ pc = "send"
    /\ op' = "CmdPrivMsg"
    /\ \E message \in Texts, target \in Names, kind \in WriteKinds :
           Sent(CmdPrivMsg(irc, message, target, kind))

CallCmdNotice ==
    /\ pc = "send"
    /\ op' = "CmdNotice"
    /\ \E message \in Texts, target \in Names, kind \in WriteKinds :
           Sent(CmdNotice(irc, message, target, kind))

CallCmdNickname ==
    /\ pc = "send"
    /\ op' = "CmdNickname"
    /\ \E newnick \in Texts, kind \in WriteKinds :
           Sent(CmdNickname(irc, newnick, kind))

CallCmdQuit ==
    /\ pc = "send"
    /\ op' = "CmdQuit"
    /\ \E message \in Texts, kind \in WriteKinds :
           Sent(CmdQuit(irc, message, kind))

NextSend ==
    \/ CallCmdJoin
    \/ CallCmdPart
    \/ CallCmdPrivMsg
    \/ CallCmdNotice
    \/ CallCmdNickname
    \/ CallCmdQuit
    \/ CallSendRaw

SpecSend == InitSend /\ [][NextSend]_vars


(* Properties of the driver *)

\* Every write of the last call handed conn.Write at most MaxMsgLen bytes
\* followed by CR LF.
WroteLimitedLines ==
    \A k \in 1..Len(wrote) :
        LET b == wrote[k].b
        IN  /\ Len(b) >= 2
            /\ b[Len(b) - 1] = CR /\ b[Len(b)] = LF
            /\ Len(b) - 2 <= irc.MaxMsgLen

C19_Step ==
    /\ (Connected(irc) /\ op' = "Dial")
           => (res' = Ok(ErrAlreadyConnected) /\ irc' = irc /\ opened' = opened)
    /\ (~Connected(irc) /\ op' = "Close")
           => (res' = Ok(ErrAlreadyDisconnected) /\ irc' = irc)
    /\ (~Connected(irc) /\ op' = "SendRaw")
           => (res' = Ok(ErrNotConnected) /\ wrote' = <<>> /\ irc' = irc)
    /\ (Connected(irc) /\ op' = "Close" /\ res' = Ok(Nil))
           => ~Connected(irc')
    /\ (~Connected(irc) /\ op' = "Dial")
           => /\ res' # Ok(ErrAlreadyConnected)
              /\ res' = Ok(Nil) => (Connected(irc') /\ irc'.conn.id = opened + 1)
    /\ op' = "Connected" => res' = Ok(Connected(irc))

C19_ConnectionStateErrors == [][C19_Step]_vars

\* A second connection: Dial was accepted again after a Close.
C19_Witness ==
    /\ op = "Dial"
    /\ res = Ok(Nil)
    /\ irc.conn.id = 2

\* C20: when a write in SendRaw transmits fewer bytes than the full line,
\* SendRaw closes the connection and returns an error, so that Connected()
\* is false afterwards.
\* (Fails: when conn.Write reports the short count together with an error,
\* SendRaw returns that error and keeps the connection.)
C20_ShortWriteCloses ==
    (op = "SendRaw" /\ wrote # <<>> /\ wrote[1].n < Len(wrote[1].b))
        => (res.val # Nil /\ ~Connected(irc))

-----------------------------------------------------------------------------
(* irc.go: Close from one goroutine while others are inside SendRaw and     *)
(* inside the receive loop of Run.  The struct has no lock, so the          *)
(* statements of the three methods interleave; pc gives each goroutine's    *)
(* position.  A method call on a nil conn or a nil rbuf is Go's run-time    *)
(* panic "invalid memory address or nil pointer dereference".               *)

Goroutines == {"sender", "closer", "reader"}

\* The goroutines that can be inside Close: the closer, and the sender
\* through the short-write branch of SendRaw.
Closers == {"sender", "closer"}

\* Where a goroutine is when it enters Close.
CloseEntry(t) == IF t = "sender" THEN "close" ELSE "idle"

\* The lines sent while Close runs.
RaceRaws == {<<"a">>, QUIT}

InitRace ==
    /\ line = <<>>
    /\ parts = NoParts
    /\ msg = <<>>
    /\ pc = [sender |-> "idle", closer |-> "idle", reader |-> "read"]
    /\ op = "Dial"
    /\ res = Ok(Nil)
    /\ \E password \in Passwords, useTLS \in BOOLEAN :
           irc = Dial(New, password, useTLS, TRUE, 0).irc
    /\ opened = 1
    /\ wrote = <<>>

\* SendRaw is called: if i.conn == nil { return ErrNotConnected }
SendRawCheck ==
    /\ pc["sender"] = "idle"
    /\ \E raw \in RaceRaws : line' = raw
    /\ op' = "SendRaw"
    /\ wrote' = <<>>
    /\ IF irc.conn = NilConn
       THEN res' = Ok(ErrNotConnected) /\ pc' = pc
       ELSE res' = res /\ pc' = [pc EXCEPT !["sender"] = "write"]
    /\ UNCHANGED <<parts, msg, irc, opened>>

\* n, err := i.conn.Write(b), and the two tests that follow it.
SendRawWrite ==
    /\ pc["sender"] = "write"
    /\ IF irc.conn = NilConn
       THEN /\ pc' = [pc EXCEPT !["sender"] = "panic"]
            /\ UNCHANGED <<res, wrote>>
       ELSE \E kind \in WriteKinds :
                LET s == LenLimitByRune(line, irc.MaxMsgLen) \o <<CR, LF>>
                    w == Write(irc.conn, s, kind)
                IN  /\ wrote' = <<w>>
                    /\ IF w.err # Nil
                       THEN res' = Ok(w.err) /\ pc' = [pc EXCEPT !["sender"] = "idle"]
                       ELSE IF w.n # Len(s)
                       THEN res' = res /\ pc' = [pc EXCEPT !["sender"] = "close"]
                       ELSE res' = Ok(Nil) /\ pc' = [pc EXCEPT !["sender"] = "idle"]
    /\ UNCHANGED <<line, parts, msg, op, irc, opened>>

\* Close is entered: if i.conn == nil { return ErrAlreadyDisconnected }.
\* SendRaw drops what Close returns and returns "short write".
CloseCheck ==
    \E t \in Closers :
        /\ pc[t] = CloseEntry(t)
        /\ IF irc.conn = NilConn
           THEN /\ pc' = [pc EXCEPT ![t] = "idle"]
                /\ res' = Ok(IF t = "sender" THEN ErrShortWrite ELSE ErrAlreadyDisconnected)
                /\ op' = IF t = "sender" THEN "SendRaw" ELSE "Close"
           ELSE /\ pc' = [pc EXCEPT ![t] = "connClose"]
                /\ UNCHANGED <<res, op>>
        /\ UNCHANGED <<line, parts, msg, irc, opened, wrote>>

\* err := i.conn.Close()
CloseConnClose ==
    \E t \in Closers :
        /\ pc[t] = "connClose"
        /\ pc' = [pc EXCEPT ![t] = IF irc.conn = NilConn THEN "panic" ELSE "nilConn"]
        /\ UNCHANGED <<line, parts, msg, op, res, irc, opened, wrote>>

\* i.conn = nil
CloseNilConn ==
    \E t \in Closers :
        /\ pc[t] = "nilConn"
        /\ irc' = [irc EXCEPT !.conn = NilConn]
        /\ pc' = [pc EXCEPT ![t] = "nilRbuf"]
        /\ UNCHANGED <<line, parts, msg, op, res, opened, wrote>>

\* i.rbuf = nil; return err
CloseNilRbuf ==
    \E t \in Closers :
        /\ pc[t] = "nilRbuf"
        /\ irc' = [irc EXCEPT !.rbuf = NilConn]
        /\ pc' = [pc EXCEPT ![t] = "idle"]
        /\ \E cerr \in {Nil, ErrNet} :
               res' = Ok(IF t = "sender" THEN ErrShortWrite ELSE cerr)
        /\ op' = IF t = "sender" THEN "SendRaw" ELSE "Close"
        /\ UNCHANGED <<line, parts, msg, opened, wrote>>

\* s, err := i.rbuf.ReadString('\n'); if err != nil { return err }
RunReadString ==
    /\ pc["reader"] = "read"
    /\ IF irc.rbuf = NilConn
       THEN pc' = [pc EXCEPT !["reader"] = "panic"]
       ELSE \E next \in {"dispatch", "returned"} :
                pc' = [pc EXCEPT !["reader"] = next]
    /\ UNCHANGED <<line, parts, msg, op, res, irc, opened, wrote>>

\* The line is dispatched and the loop starts over.
RunDispatch ==
    /\ pc["reader"] = "dispatch"
    /\ pc' = [pc EXCEPT !["reader"] = "read"]
    /\ UNCHANGED <<line, parts, msg, op, res, irc, opened, wrote>>

NextRace ==
    \/ SendRawCheck
    \/ SendRawWrite
    \/ CloseCheck
    \/ CloseConnClose
    \/ CloseNilConn
    \/ CloseNilRbuf
    \/ RunReadString
    \/ RunDispatch

SpecRace == InitRace /\ [][NextRace]_vars

\* C21: with Close running in one goroutine while others are inside SendRaw
\* or the receive loop, SendRaw never writes on a conn that Close has set to
\* nil after SendRaw's check, and the loop never reads from an rbuf that
\* Close has set to nil.
\* (Fails: nothing orders Close's assignments with the other goroutines'
\* reads of conn and rbuf.)
C21_NoUseOfNilHandle ==
    /\ pc["sender"] # "panic"
    /\ pc["reader"] # "panic"

-----------------------------------------------------------------------------
(* irc.go: Run, in one goroutine.  pc is the position inside Run; line is  *)
(* the line ReadString returned last (empty before the first read), parts  *)
(* the parts it was assembled from, msg the Message made of it; wrote is   *)
(* the list of conn.Write calls Run made since it last read a line.        *)

\* The identity given to New.
Nick == <<"n">>
User == <<"u">>
Mode == <<"i">>
Geck == <<"g">>

PassLine(password) == <<"P", "A", "S", "S", SP>> \o password
NickLine == <<"N", "I", "C", "K", SP>> \o Nick
UserLine ==
    <<"U", "S", "E", "R", SP>> \o User \o <<SP>> \o Mode \o <<SP, "*", SP, COLON>> \o Geck

PING == <<"P", "I", "N", "G">>
PONG == <<"P", "O", "N", "G">>

\* The commands Run has a case for, besides PING, and the accessors whose
\* results are passed to the handler.
HandlerArgs(c, m) ==
    CASE c = <<"J", "O", "I", "N">> -> {Trailing(m), Prefix(m)}
      [] c = <<"P", "A", "R", "T">> -> {Middle(m), Trailing(m), Prefix(m)}
      [] c = <<"K", "I", "C", "K">> -> {Middle(m), Trailing(m), Prefix(m)}
      [] c = <<"P", "R", "I", "V", "M", "S", "G">> -> {Trailing(m), Prefix(m), Middles(m)}
      [] c = <<"N", "O", "T", "I", "C", "E">> -> {Trailing(m), Prefix(m), Middles(m)}
      [] c = <<"N", "I", "C", "K">> -> {Trailing(m), Prefix(m)}
      [] c = <<"Q", "U", "I", "T">> -> {Trailing(m), Prefix(m)}
      [] c = <<"E", "R", "R", "O", "R">> -> {Trailing(m)}
      [] OTHER -> {}

\* The lines the server sends: after the wire grammar, ended by CR LF.
RunParts ==
    {p \in [built : {TRUE},
            hasPfx : BOOLEAN, pfx : {<<>>, <<"s">>},
            cmd : {PING, <<"J", "O", "I", "N">>, <<"P", "R", "I", "V", "M", "S", "G">>,
                   <<"0", "0", "1">>},
            hasMid : BOOLEAN, mid : {<<>>, <<"a">>},
            hasTrail : BOOLEAN, trail : {<<>>, <<"a">>, <<"a", SP, "a">>}] :
        /\ p.hasPfx <=> p.pfx # <<>>
        /\ p.hasMid <=> p.mid # <<>>
        /\ p.hasTrail \/ p.trail = <<>>}

InitRun ==
    /\ line = <<>>
    /\ parts = NoParts
    /\ msg = <<>>
    /\ pc = "pass"
    /\ op = "Run"
    /\ res = Ok(Nil)
    /\ \/ irc = New /\ opened = 0
       \/ /\ \E password \in Passwords, useTLS \in BOOLEAN :
                 irc = Dial(New, password, useTLS, TRUE, 0).irc
          /\ opened = 1
    /\ wrote = <<>>

\* Run returns err.
RunReturns(err) ==
    /\ res' = Ok(err)
    /\ pc' = "returned"

\* Faulty variant of RunPass: the password is sent but not cleared.
RunPass_KeepsPass ==
    /\ pc = "pass"
    /\ IF irc.pass # <<>>
       THEN \E kind \in WriteKinds :
                LET r == SendRaw(irc, PassLine(irc.pass), kind)
                IN  /\ wrote' = wrote \o r.wrote
                    /\ irc' = r.irc
                    /\ IF r.err # Nil
                       THEN RunReturns(r.err)
                       ELSE pc' = "nick" /\ res' = res
       ELSE pc' = "nick" /\ UNCHANGED <<res, irc, wrote>>
    /\ UNCHANGED <<line, parts, msg, op, opened>>

\* if i.pass != "" { SendRaw("PASS ..."); i.pass = "" }
RunPass ==
    /\ pc = "pass"
    /\ IF irc.pass # <<>>
       THEN \E kind \in WriteKinds :
                LET r == SendRaw(irc, PassLine(irc.pass), kind)
                IN  /\ wrote' = wrote \o r.wrote
                    /\ IF r.err # Nil
                       THEN irc' = r.irc /\ RunReturns(r.err)
                       ELSE /\ irc' = [r.irc EXCEPT !.pass = <<>>]
                            /\ pc' = "nick" /\ res' = res
       ELSE pc' = "nick" /\ UNCHANGED <<res, irc, wrote>>
    /\ UNCHANGED <<line, parts, msg, op, opened>>

\* SendRaw("NICK ...")
RunNick ==
    /\ pc = "nick"
    /\ \E kind \in WriteKinds :
           LET r == SendRaw(irc, NickLine, kind)
           IN  /\ wrote' = wrote \o r.wrote
               /\ irc' = r.irc
               /\ IF r.err # Nil THEN RunReturns(r.err)
                                 ELSE pc' = "user" /\ res' = res
    /\ UNCHANGED <<line, parts, msg, op, opened>>

\* SendRaw("USER ...")
RunUser ==
    /\ pc = "user"
    /\ \E kind \in WriteKinds :
           LET r == SendRaw(irc, UserLine, kind)
           IN  /\ wrote' = wrote \o r.wrote
               /\ irc' = r.irc
               /\ IF r.err # Nil THEN RunReturns(r.err)
                                 ELSE pc' = "read" /\ res' = res
    /\ UNCHANGED <<line, parts, msg, op, opened>>

\* s, err := i.rbuf.ReadString('\n'); m := NewMessage(s)
RunRead ==
    /\ pc = "read"
    /\ IF irc.rbuf = NilConn
       THEN pc' = "panic" /\ UNCHANGED <<line, parts, msg, res, wrote>>
       ELSE \/ RunReturns(ErrNet) /\ UNCHANGED <<line, parts, msg, wrote>>
            \/ \E p \in RunParts :
                   /\ parts' = p
                   /\ line' = BuildLine(p) \o <<CR, LF>>
                   /\ msg' = NewMessage(BuildLine(p) \o <<CR, LF>>)
                   /\ wrote' = <<>>
                   /\ pc' = "dispatch"
                   /\ res' = res
    /\ UNCHANGED <<op, irc, opened>>

\* The PING case: the result of SendRaw is dropped.
RunPing ==
    /\ pc = "dispatch"
    /\ ~IsNumeric(msg).panic /\ ~IsNumeric(msg).val
    /\ Command(msg).val = PING
    /\ IF HasTrailing(msg).panic
       THEN pc' = "panic" /\ UNCHANGED <<irc, wrote>>
       ELSE \E kind \in WriteKinds, handler \in BOOLEAN :
                LET raw == IF HasTrailing(msg).val
                           THEN PONG \o <<SP, COLON>> \o Trailing(msg).val
                           ELSE PONG
                    r == SendRaw(irc, raw, kind)
                IN  /\ wrote' = wrote \o r.wrote
                    /\ irc' = r.irc
                    /\ pc' = IF handler THEN "pingpong" ELSE "read"
    /\ UNCHANGED <<line, parts, msg, op, res, opened>>

\* if i.OnPingPong != nil { i.OnPingPong() }
RunOnPingPong ==
    /\ pc = "pingpong"
    /\ pc' = "read"
    /\ UNCHANGED <<line, parts, msg, op, res, irc, opened, wrote>>

\* Every other line: IsNumeric and Command may panic; a handler that is set
\* gets the results of the accessors of its case.
RunDispatchOther ==
    /\ pc = "dispatch"
    /\ IF IsNumeric(msg).panic
       THEN pc' = "panic"
       ELSE /\ IsNumeric(msg).val \/ Command(msg).val # PING
            /\ \E handler \in BOOLEAN :
                   pc' = IF /\ handler
                            /\ ~IsNumeric(msg).val
                            /\ \E a \in HandlerArgs(Command(msg).val, msg) : a.panic
                         THEN "panic" ELSE "read"
    /\ UNCHANGED <<line, parts, msg, op, res, irc, opened, wrote>>

NextRun ==
    \/ RunPass
    \/ RunNick
    \/ RunUser
    \/ RunRead
    \/ RunPing
    \/ RunOnPingPong
    \/ RunDispatchOther

SpecRun == InitRun /\ [][NextRun]_vars


(* Properties of Run *)

\* w is a complete, successful write of raw, limited to MaxMsgLen.
WroteWhole(w, raw) ==
    /\ w.b = LenLimitByRune(raw, irc.MaxMsgLen) \o <<CR, LF>>
    /\ w.n = Len(w.b)
    /\ w.err = Nil

\* The error SendRaw returns for the write w.
ErrorOf(w) == IF w.err # Nil THEN w.err ELSE ErrShortWrite

\* C22: Run registers before it reads anything: PASS only when a password
\* was given to Dial (the stored password is cleared after it), then NICK,
\* then USER, in that order; the first line is read only after all of them
\* succeeded, and when one of the sends fails Run returns that error without
\* reading or dispatching a line.
C22_Step ==
    /\ pc = "pass" =>
           IF irc.pass = <<>>
           THEN wrote' = <<>> /\ pc' = "nick"
           ELSE /\ pc' \in {"nick", "returned"}
                /\ pc' = "nick" =>
                       /\ wrote' = <<Write(irc.conn, PassLine(irc.pass) \o <<CR, LF>>, "full")>>
                       /\ irc'.pass = <<>>
    /\ (pc' = "read" /\ line' = <<>>) =>
           LET n == Len(wrote')
           IN  /\ n \in {2, 3}
               /\ n = 3 => \E password \in Passwords \ {<<>>} :
                               wrote'[1] = Write(irc'.conn, PassLine(password) \o <<CR, LF>>, "full")
               /\ wrote'[n - 1] = Write(irc'.conn, NickLine \o <<CR, LF>>, "full")
               /\ WroteWhole(wrote'[n], UserLine)
               /\ irc'.pass = <<>>
    /\ (pc \in {"pass", "nick", "user"} /\ pc' = "returned") =>
           /\ line' = <<>> /\ msg' = <<>>
           /\ res' = Ok(IF wrote' = wrote THEN ErrNotConnected
                        ELSE ErrorOf(wrote'[Len(wrote')]))
    /\ line' # line => pc = "read"
    /\ pc' = "dispatch" => pc = "read"

C22_RegistrationFirst == [][C22_Step]_vars

C22_Witness ==
    /\ pc = "read"
    /\ line = <<>>
    /\ Len(wrote) = 3
    /\ wrote[1].b = PassLine(<<"p">>) \o <<CR, LF>>
    /\ wrote[2].b = NickLine \o <<CR, LF>>

\* The received line is a PING.
IsPing(p) == p.built /\ p.cmd = PING

\* C23: for every received line whose command is PING, with or without
\* parameters, Run sends exactly one PONG before it reads the next line:
\* "PONG :<trailing>" when the line has a trailing parameter and a bare
\* "PONG" otherwise; OnPingPong is invoked after the PONG, and the loop
\* goes on.
\* (Fails: a PING without parameters makes Command panic inside
\* IsNumeric, so Run sends nothing and does not go on.)
C23_PongForEveryPing ==
    IsPing(parts) =>
        /\ pc # "panic"
        /\ pc \in {"pingpong", "read"} =>
               /\ Len(wrote) = 1
               /\ wrote[1].b =
                      (IF parts.hasTrail THEN PONG \o <<SP, COLON>> \o parts.trail ELSE PONG)
                      \o <<CR, LF>>

-----------------------------------------------------------------------------
(* irc.go: CmdPrivMsg and CmdNotice with messages longer than one line.    *)
(* msg keeps the message that was given to the builder.                    *)

\* Longest message given to CmdPrivMsg and CmdNotice.
MaxChunkMsg == 3

\* One-byte characters: every piece LenSplitByRune cuts is full.
ChunkBytes == {"a", "b"}

\* The target "#" leaves MaxMsgLen - 11 bytes a line for PRIVMSG and
\* MaxMsgLen - 10 for NOTICE.
ChunkTarget == <<"#">>

InitChunks ==
    /\ line = <<>>
    /\ parts = NoParts
    /\ msg = <<>>
    /\ pc = "chunks"
    /\ op = "Dial"
    /\ res = Ok(Nil)
    /\ \E password \in Passwords, useTLS \in BOOLEAN :
           irc = Dial(New, password, useTLS, TRUE, 0).irc
    /\ opened = 1
    /\ wrote = <<>>

\* The builder was given message and returned r.
SentMessage(message, r) ==
    /\ msg' = message
    /\ line' = r.raw
    /\ res' = Ok(r.err)
    /\ irc' = r.irc
    /\ wrote' = r.wrote
    /\ UNCHANGED <<parts, pc, opened>>

PrivMsgLong ==
    /\ pc = "chunks"
    /\ op' = "CmdPrivMsg"
    /\ \E message \in Strs(ChunkBytes, MaxChunkMsg), kind \in WriteKinds :
           SentMessage(message, CmdPrivMsg(irc, message, ChunkTarget, kind))

NoticeLong ==
    /\ pc = "chunks"
    /\ op' = "CmdNotice"
    /\ \E message \in Strs(ChunkBytes, MaxChunkMsg), kind \in WriteKinds :
           SentMessage(message, CmdNotice(irc, message, ChunkTarget, kind))

NextChunks ==
    \/ PrivMsgLong
    \/ NoticeLong

SpecChunks == InitChunks /\ [][NextChunks]_vars

\* The payload of a written line: what stands between the first colon and
\* the closing CR LF.
PayloadOf(b) == Slice(b, Index(b, COLON) + 1, Len(b) - 2)

\* The payloads of the lines w[1..n], concatenated.
RECURSIVE Payloads(_, _)
Payloads(w, n) == IF n = 0 THEN <<>> ELSE Payloads(w, n - 1) \o PayloadOf(w[n].b)

\* C24: CmdPrivMsg and CmdNotice send the whole message: a message longer
\* than the budget of one line goes out in as many lines as it has chunks,
\* in order, so that the payloads of the lines written, concatenated, are
\* the message, unless a SendRaw returned an error.
\* (Fails: the loop over the chunks returns in its first pass.)
C24_WholeMessageSent ==
    (pc = "chunks" /\ op \in {"CmdPrivMsg", "CmdNotice"} /\ res = Ok(Nil))
        => Payloads(wrote, Len(wrote)) = msg

====
